---- MODULE Spec2Model ----
(***************************************************************************)
(* A model of the YouTube trending-videos pipeline: the credential loader  *)
(* (src/utils.py load_api_key), the fetcher (src/fetch.py                  *)
(* fetch_trending_videos), the two persisters (src/utils.py save_to_json,  *)
(* save_to_csv) and the CLI command that chains them (src/main.py fetch).  *)
(*                                                                         *)
(* Text (HTTP bodies, files) is a sequence of characters; a character is a *)
(* one-character string, except the two named code points below.  A JSON   *)
(* value is a tagged record [t, v]; an object is a sequence of members in  *)
(* insertion order, as a Python dict is.                                   *)
(***************************************************************************)
EXTENDS Integers, Sequences, FiniteSets, TLC

(***************************************************************************)
(* Characters                                                              *)
(***************************************************************************)
\* U+00E9, a non-ASCII character (written as is under ensure_ascii=False).
EACUTE == "U+00E9"
\* U+D800, an unpaired surrogate: a Python str may hold it (json.loads makes
\* it from the escape \ud800) but the utf-8 codec cannot encode it.
SURR == "U+D800"
QUOTE == "\""
BSLASH == "\\"
NL == "\n"
SP == " "
COMMA == ","

Digits == <<"0", "1", "2", "3", "4", "5", "6", "7", "8", "9">>

RECURSIVE Flatten(_)
\* "".join(chunks)
Flatten(chunks) ==
    IF chunks = <<>> THEN <<>> ELSE Head(chunks) \o Flatten(Tail(chunks))

RECURSIVE Spaces(_)
\* " " * n
Spaces(n) == IF n = 0 THEN <<>> ELSE <<SP>> \o Spaces(n - 1)

RECURSIVE IntStr(_)
\* str(n) for n >= 0: the decimal digits
IntStr(n) ==
    IF n < 10 THEN <<Digits[n + 1]>>
    ELSE IntStr(n \div 10) \o <<Digits[(n % 10) + 1]>>

\* c in s
Contains(s, c) == \E i \in 1..Len(s) : s[i] = c

(***************************************************************************)
(* JSON values                                                             *)
(***************************************************************************)
Str(s) == [t |-> "str", v |-> s]
Num(n) == [t |-> "num", v |-> n]
Arr(es) == [t |-> "arr", v |-> es]
Obj(ms) == [t |-> "obj", v |-> ms]
Null == [t |-> "null", v |-> <<>>]
Member(k, x) == [k |-> k, x |-> x]

\* key in dct
HasKey(obj, k) == \E i \in 1..Len(obj.v) : obj.v[i].k = k

\* dct.get(key, default)
Get(obj, k, default) ==
    IF HasKey(obj, k)
    THEN obj.v[CHOOSE i \in 1..Len(obj.v) : obj.v[i].k = k].x
    ELSE default

(***************************************************************************)
(* json.dump: the encoder                                                  *)
(***************************************************************************)
\* \uXXXX escapes of the non-ASCII code points of the model.
UnicodeEscape(c) ==
    IF c = EACUTE THEN <<BSLASH, "u", "0", "0", "e", "9">>
    ELSE <<BSLASH, "u", "d", "8", "0", "0">>

\* json.encoder's ESCAPE_DCT; with ensure_ascii also the \uXXXX escapes.
EscapeChar(c, ensure_ascii) ==
    IF c = QUOTE THEN <<BSLASH, QUOTE>>
    ELSE IF c = BSLASH THEN <<BSLASH, BSLASH>>
    ELSE IF c = NL THEN <<BSLASH, "n">>
    ELSE IF ensure_ascii /\ c \in {EACUTE, SURR} THEN UnicodeEscape(c)
    ELSE <<c>>

\* py_encode_basestring / py_encode_basestring_ascii: '"' + escaped + '"'
EncodeString(s, ensure_ascii) ==
    <<QUOTE>> \o Flatten([i \in 1..Len(s) |-> EscapeChar(s[i], ensure_ascii)])
    \o <<QUOTE>>

\* An encoder's settings: indent (-1 for None) and ensure_ascii.
\* '\n' + ' ' * (indent * level), or nothing when indent is None.
NewlineIndent(enc, level) ==
    IF enc.indent < 0 THEN <<>> ELSE <<NL>> \o Spaces(enc.indent * level)

\* item_separator: ',' with an indent, ', ' without.
ItemSeparator(enc) == IF enc.indent < 0 THEN <<COMMA, SP>> ELSE <<COMMA>>

IsScalar(o) == o.t \in {"str", "num", "null"}

\* The text of a scalar: a string, an int, None.
ScalarText(o, enc) ==
    IF o.t = "str" THEN EncodeString(o.v, enc.ensure_ascii)
    ELSE IF o.t = "num" THEN IntStr(o.v)
    ELSE <<"n", "u", "l", "l">>

RECURSIVE Chunks(_, _, _), ListChunks(_, _, _, _), DictChunks(_, _, _, _)
\* _make_iterencode: the chunks json.dump hands to fp.write, in order.
Chunks(o, level, enc) ==
    IF IsScalar(o) THEN <<ScalarText(o, enc)>>
    ELSE IF o.t = "arr"
    THEN IF o.v = <<>> THEN << <<"[", "]">> >>
         ELSE ListChunks(o.v, 1, level + 1, enc)
              \o (IF enc.indent < 0 THEN <<>> ELSE <<NewlineIndent(enc, level)>>)
              \o << <<"]">> >>
    ELSE IF o.v = <<>> THEN << <<"{", "}">> >>
         ELSE << <<"{">> >>
              \o (IF enc.indent < 0 THEN <<>> ELSE <<NewlineIndent(enc, level + 1)>>)
              \o DictChunks(o.v, 1, level + 1, enc)
              \o (IF enc.indent < 0 THEN <<>> ELSE <<NewlineIndent(enc, level)>>)
              \o << <<"}">> >>

\* _iterencode_list's loop: a scalar is yielded glued to the pending buf.
ListChunks(es, i, level, enc) ==
    IF i > Len(es) THEN <<>>
    ELSE LET buf == IF i = 1 THEN <<"[">> \o NewlineIndent(enc, level)
                    ELSE ItemSeparator(enc) \o NewlineIndent(enc, level)
         IN  (IF IsScalar(es[i]) THEN <<buf \o ScalarText(es[i], enc)>>
              ELSE <<buf>> \o Chunks(es[i], level, enc))
             \o ListChunks(es, i + 1, level, enc)

\* _iterencode_dict's loop: separator, key, ': ', value.
DictChunks(ms, i, level, enc) ==
    IF i > Len(ms) THEN <<>>
    ELSE (IF i = 1 THEN <<>>
          ELSE <<ItemSeparator(enc) \o NewlineIndent(enc, level)>>)
         \o <<EncodeString(ms[i].k, enc.ensure_ascii), <<":", SP>>>>
         \o Chunks(ms[i].x, level, enc)
         \o DictChunks(ms, i + 1, level, enc)

(***************************************************************************)
(* json.loads: the decoder                                                 *)
(***************************************************************************)
Failed == [ok |-> FALSE, v |-> Null, i |-> 0]
Parsed(v, i) == [ok |-> TRUE, v |-> v, i |-> i]

RECURSIVE SkipWs(_, _)
\* The first index from i on that holds no whitespace.
SkipWs(s, i) ==
    IF i <= Len(s) /\ s[i] \in {SP, NL} THEN SkipWs(s, i + 1) ELSE i

\* The code point of a \uXXXX escape (s[i] is the first hex digit).
HexChar(s, i) ==
    LET h == <<s[i], s[i + 1], s[i + 2], s[i + 3]>>
    IN  IF h = <<"0", "0", "e", "9">> THEN EACUTE
        ELSE IF h = <<"d", "8", "0", "0">> THEN SURR
        ELSE "?"

RECURSIVE ScanString(_, _, _)
\* scanstring, strict: from the character after the opening quote.
ScanString(s, i, acc) ==
    IF i > Len(s) THEN Failed
    ELSE IF s[i] = QUOTE THEN Parsed(Str(acc), i + 1)
    ELSE IF s[i] = NL THEN Failed
    ELSE IF s[i] = BSLASH
    THEN IF i + 1 > Len(s) THEN Failed
         ELSE IF s[i + 1] \in {QUOTE, BSLASH} THEN ScanString(s, i + 2, Append(acc, s[i + 1]))
         ELSE IF s[i + 1] = "n" THEN ScanString(s, i + 2, Append(acc, NL))
         ELSE IF s[i + 1] = "u" /\ i + 5 <= Len(s)
         THEN ScanString(s, i + 6, Append(acc, HexChar(s, i + 2)))
         ELSE Failed
    ELSE ScanString(s, i + 1, Append(acc, s[i]))

DigitValue(c) == CHOOSE d \in 0..9 : Digits[d + 1] = c
IsDigit(c) == \E d \in 1..10 : Digits[d] = c

RECURSIVE ScanNumber(_, _, _)
\* An unsigned integer literal.
ScanNumber(s, i, acc) ==
    IF i <= Len(s) /\ IsDigit(s[i])
    THEN ScanNumber(s, i + 1, acc * 10 + DigitValue(s[i]))
    ELSE Parsed(Num(acc), i)

\* dct[key] = value: a key seen again keeps its place and takes the new value.
PutMember(ms, k, x) ==
    IF \E j \in 1..Len(ms) : ms[j].k = k
    THEN [j \in 1..Len(ms) |-> IF ms[j].k = k THEN Member(k, x) ELSE ms[j]]
    ELSE Append(ms, Member(k, x))

RECURSIVE ScanValue(_, _), ScanArray(_, _, _), ScanObject(_, _, _)
\* scan_once: the value that starts at s[i].
ScanValue(s, i) ==
    IF i > Len(s) THEN Failed
    ELSE IF s[i] = QUOTE THEN ScanString(s, i + 1, <<>>)
    ELSE IF s[i] = "{"
    THEN LET j == SkipWs(s, i + 1)
         IN  IF j <= Len(s) /\ s[j] = "}" THEN Parsed(Obj(<<>>), j + 1)
             ELSE ScanObject(s, j, <<>>)
    ELSE IF s[i] = "["
    THEN LET j == SkipWs(s, i + 1)
         IN  IF j <= Len(s) /\ s[j] = "]" THEN Parsed(Arr(<<>>), j + 1)
             ELSE ScanArray(s, j, <<>>)
    ELSE IF s[i] = "n"
    THEN IF i + 3 <= Len(s) /\ <<s[i + 1], s[i + 2], s[i + 3]>> = <<"u", "l", "l">>
         THEN Parsed(Null, i + 4) ELSE Failed
    ELSE IF IsDigit(s[i]) THEN ScanNumber(s, i, 0)
    ELSE Failed

\* JSONArray's loop: value, then ',' or ']'.
ScanArray(s, i, acc) ==
    LET r == ScanValue(s, i)
        j == SkipWs(s, r.i)
    IN  IF ~r.ok \/ j > Len(s) THEN Failed
        ELSE IF s[j] = "]" THEN Parsed(Arr(Append(acc, r.v)), j + 1)
        ELSE IF s[j] = COMMA THEN ScanArray(s, SkipWs(s, j + 1), Append(acc, r.v))
        ELSE Failed

\* JSONObject's loop: "key", ':', value, then ',' or '}'.
ScanObject(s, i, acc) ==
    IF i > Len(s) \/ s[i] # QUOTE THEN Failed
    ELSE LET k == ScanString(s, i + 1, <<>>)
             c == SkipWs(s, k.i)
         IN  IF ~k.ok \/ c > Len(s) \/ s[c] # ":" THEN Failed
             ELSE LET r == ScanValue(s, SkipWs(s, c + 1))
                      j == SkipWs(s, r.i)
                  IN  IF ~r.ok \/ j > Len(s) THEN Failed
                      ELSE IF s[j] = "}"
                      THEN Parsed(Obj(PutMember(acc, k.v.v, r.v)), j + 1)
                      ELSE IF s[j] = COMMA
                      THEN ScanObject(s, SkipWs(s, j + 1), PutMember(acc, k.v.v, r.v))
                      ELSE Failed

\* json.loads(text): the parsed value, or ok = FALSE for a JSONDecodeError.
JsonLoads(s) ==
    LET r == ScanValue(s, SkipWs(s, 1))
    IN  IF r.ok /\ SkipWs(s, r.i) = Len(s) + 1 THEN r ELSE Failed

(***************************************************************************)
(* Files                                                                   *)
(***************************************************************************)
NoFile == [exists |-> FALSE, text |-> <<>>]
File(text) == [exists |-> TRUE, text |-> text]

NoExc == [type |-> "", at |-> "", msg |-> <<>>, status |-> <<>>, body |-> <<>>]
Exc(type, at, msg) ==
    [type |-> type, at |-> at, msg |-> msg, status |-> <<>>, body |-> <<>>]

\* The chunks before the first one the utf-8 codec cannot encode.
RECURSIVE Encodable(_)
Encodable(chunks) ==
    IF chunks = <<>> \/ Contains(Head(chunks), SURR) THEN <<>>
    ELSE <<Head(chunks)>> \o Encodable(Tail(chunks))

\* A write that opens the file in append mode: what it held stays in front.
WriteText_Append(files, locked, filepath, chunks, at) ==
    IF filepath \in locked
    THEN [fs |-> files, exc |-> Exc("OSError", at, <<"open">>)]
    ELSE LET done == Encodable(chunks)
         IN  [fs |-> [files EXCEPT ![filepath] = File(files[filepath].text \o Flatten(done))],
              exc |-> IF Len(done) = Len(chunks) THEN NoExc
                      ELSE Exc("UnicodeEncodeError", at, <<"surrogates not allowed">>)]

\* with open(filepath, "w", encoding="utf-8") as f: f.write(chunk) for each
\* chunk.  open fails on an unwritable path and leaves the files alone; else it
\* truncates, and a chunk that cannot be encoded ends the writing there, the
\* earlier chunks staying in the file that the with block closes.
WriteText(files, locked, filepath, chunks, at) ==
    IF filepath \in locked
    THEN [fs |-> files, exc |-> Exc("OSError", at, <<"open">>)]
    ELSE LET done == Encodable(chunks)
         IN  [fs |-> [files EXCEPT ![filepath] = File(Flatten(done))],
              exc |-> IF Len(done) = Len(chunks) THEN NoExc
                      ELSE Exc("UnicodeEncodeError", at, <<"surrogates not allowed">>)]

(***************************************************************************)
(* src/utils.py save_to_json                                               *)
(***************************************************************************)
\* json.dump(data, f, indent=2, ensure_ascii=False)
DumpSettings == [indent |-> 2, ensure_ascii |-> FALSE]

SaveToJson(data, filepath, files, locked) ==
    WriteText(files, locked, filepath, Chunks(data, 0, DumpSettings), "save_to_json")

(***************************************************************************)
(* src/utils.py save_to_csv                                                *)
(***************************************************************************)
K_items == <<"i", "t", "e", "m", "s">>
K_snippet == <<"s", "n", "i", "p", "p", "e", "t">>
K_title == <<"t", "i", "t", "l", "e">>
K_statistics == <<"s", "t", "a", "t", "i", "s", "t", "i", "c", "s">>
K_viewCount == <<"v", "i", "e", "w", "C", "o", "u", "n", "t">>
\* The column names, as the keys of the records.
C_title == K_title
C_views == <<"v", "i", "e", "w", "s">>

\* A response with nothing but its items.
Bare(items) == Obj(<<Member(K_items, Arr(items))>>)

\* The loop body: one record per item, a missing field left as None.
Record(item) ==
    LET snippet == Get(item, K_snippet, Obj(<<>>))
        stats == Get(item, K_statistics, Obj(<<>>))
    IN  [title |-> Get(snippet, K_title, Null),
         views |-> Get(stats, K_viewCount, Null)]

\* Records that leave out the items without a title.
Records_DropUntitled(data) ==
    LET items == Get(data, K_items, Arr(<<>>)).v
    IN  SelectSeq([i \in 1..Len(items) |-> Record(items[i])], LAMBDA r : r.title # Null)

\* records: one per item of data.get("items", []), in the items' order.
Records(data) ==
    LET items == Get(data, K_items, Arr(<<>>)).v
    IN  [i \in 1..Len(items) |-> Record(items[i])]

\* pd.DataFrame(records): the columns are the records' keys; no record, no
\* column.
DataFrame(records) ==
    [columns |-> IF records = <<>> THEN <<>> ELSE <<C_title, C_views>>,
     rows |-> [i \in 1..Len(records) |-> <<records[i].title, records[i].views>>]]

\* A cell's text: a string as it is, None as na_rep = ''.
CellText(x) == IF x.t = "str" THEN x.v ELSE <<>>

\* csv.writer, QUOTE_MINIMAL: a field holding the delimiter, the quote character
\* or a line break is quoted, its quotes doubled.
CsvField(text) ==
    IF Contains(text, COMMA) \/ Contains(text, QUOTE) \/ Contains(text, NL)
    THEN <<QUOTE>>
         \o Flatten([i \in 1..Len(text) |->
                        IF text[i] = QUOTE THEN <<QUOTE, QUOTE>> ELSE <<text[i]>>])
         \o <<QUOTE>>
    ELSE text

RECURSIVE JoinFields(_)
JoinFields(fields) ==
    IF fields = <<>> THEN <<>>
    ELSE IF Len(fields) = 1 THEN CsvField(fields[1])
    ELSE CsvField(fields[1]) \o <<COMMA>> \o JoinFields(Tail(fields))

\* writer.writerow: the fields joined by ',', then the line terminator; a row
\* of one empty field is written as "".
CsvLine(fields) ==
    (IF fields = << <<>> >> THEN <<QUOTE, QUOTE>> ELSE JoinFields(fields)) \o <<NL>>

\* df.to_csv(filepath, index=False): the header line, then a line per row.
ToCsv(df) ==
    <<CsvLine(df.columns)>>
    \o [i \in 1..Len(df.rows) |->
           CsvLine([j \in 1..Len(df.rows[i]) |-> CellText(df.rows[i][j])])]

SaveToCsv(data, filepath, files, locked) ==
    WriteText(files, locked, filepath, ToCsv(DataFrame(Records(data))), "save_to_csv")

RECURSIVE ScanCsv(_, _, _, _, _, _)
\* csv.reader over the text: st is "bol" at the beginning of a line, "field" in
\* an unquoted field, "quoted" in a quoted one, "quote" after a quote in it.
ScanCsv(s, i, rows, row, cell, st) ==
    IF i > Len(s)
    THEN IF st = "bol" THEN rows ELSE Append(rows, Append(row, cell))
    ELSE LET c == s[i]
         IN  IF st = "quoted"
             THEN IF c = QUOTE THEN ScanCsv(s, i + 1, rows, row, cell, "quote")
                  ELSE ScanCsv(s, i + 1, rows, row, Append(cell, c), "quoted")
             ELSE IF c = NL
             THEN ScanCsv(s, i + 1,
                          Append(rows, IF st = "bol" THEN <<>> ELSE Append(row, cell)),
                          <<>>, <<>>, "bol")
             ELSE IF c = COMMA
             THEN ScanCsv(s, i + 1, rows, Append(row, cell), <<>>, "field")
             ELSE IF c = QUOTE /\ (st = "quote" \/ cell = <<>>)
             THEN ScanCsv(s, i + 1, rows, row,
                          IF st = "quote" THEN Append(cell, QUOTE) ELSE cell, "quoted")
             ELSE ScanCsv(s, i + 1, rows, row, Append(cell, c), "field")

\* list(csv.reader(text)): the rows, each the list of its cells.
CsvRows(s) == ScanCsv(s, 1, <<>>, <<>>, <<>>, "bol")

(***************************************************************************)
(* src/utils.py load_api_key                                               *)
(***************************************************************************)
KEY_NAME == "YOUTUBE_API_KEY"

\* A .env file that does not exist, and one with the given assignments (a
\* function from the names it defines to their values).
NoEnvFile == [exists |-> FALSE, vars |-> <<>>]
EnvFile(vars) == [exists |-> TRUE, vars |-> vars]

\* load_dotenv(dotenv_path=env_path), override left at its default False: each
\* name of the file is set in os.environ unless os.environ holds it already.
LoadDotenv(file, env) ==
    [k \in DOMAIN env \cup (IF file.exists THEN DOMAIN file.vars ELSE {}) |->
        IF k \in DOMAIN env THEN env[k] ELSE file.vars[k]]

\* A loader that tests `api_key is None`: the empty string passes for a key.
LoadApiKey_NoneOnly(file, env) ==
    LET merged == LoadDotenv(file, env)
        found == KEY_NAME \in DOMAIN merged
    IN  [environ |-> merged,
         value |-> IF found THEN merged[KEY_NAME] ELSE "",
         exc |-> IF found THEN NoExc
                 ELSE Exc("ValueError", "load_api_key",
                          <<"API key not found. Add ", "YOUTUBE_API_KEY",
                            " to your .env file.">>)]

\* os.getenv("YOUTUBE_API_KEY"), and the truth test `not api_key`: unset and
\* the empty string both fail it.
LoadApiKey(file, env) ==
    LET merged == LoadDotenv(file, env)
        found == KEY_NAME \in DOMAIN merged /\ merged[KEY_NAME] # ""
    IN  [environ |-> merged,
         value |-> IF found THEN merged[KEY_NAME] ELSE "",
         exc |-> IF found THEN NoExc
                 ELSE Exc("ValueError", "load_api_key",
                          <<"API key not found. Add ", "YOUTUBE_API_KEY",
                            " to your .env file.">>)]

(***************************************************************************)
(* src/fetch.py fetch_trending_videos                                      *)
(***************************************************************************)
HTTP_OK == 200

\* requests.get(url, params=params): the one request the function builds.
FetchRequest(key, region, max_results) ==
    [url |-> "https://www.googleapis.com/youtube/v3/videos",
     params |-> [part |-> "snippet,statistics",
                 chart |-> "mostPopular",
                 regionCode |-> region,
                 maxResults |-> max_results,
                 key |-> key]]

NoResponse == [status_code |-> 0, text |-> <<>>]
Unset == [t |-> "unset", v |-> <<>>]

\* A fetcher that tests `response.ok` (any status below 400) instead of 200.
FetchResult_Below400(response) ==
    IF response.status_code < 400
    THEN LET r == JsonLoads(response.text)
         IN  IF r.ok THEN [data |-> r.v, exc |-> NoExc]
             ELSE [data |-> Unset,
                   exc |-> Exc("JSONDecodeError", "fetch_trending_videos", <<"json">>)]
    ELSE [data |-> Unset,
          exc |-> [type |-> "Exception", at |-> "fetch_trending_videos",
                   msg |-> <<"API Error: ", "{status_code}", " - ", "{text}">>,
                   status |-> IntStr(response.status_code),
                   body |-> response.text]]

\* A fetcher that keeps only the items of the body it parsed.
FetchResult_ItemsOnly(response) ==
    IF response.status_code = HTTP_OK
    THEN LET r == JsonLoads(response.text)
         IN  IF r.ok THEN [data |-> Bare(Get(r.v, K_items, Arr(<<>>)).v), exc |-> NoExc]
             ELSE [data |-> Unset,
                   exc |-> Exc("JSONDecodeError", "fetch_trending_videos", <<"json">>)]
    ELSE [data |-> Unset,
          exc |-> [type |-> "Exception", at |-> "fetch_trending_videos",
                   msg |-> <<"API Error: ", "{status_code}", " - ", "{text}">>,
                   status |-> IntStr(response.status_code),
                   body |-> response.text]]

\* The status check: 200 returns response.json(), which raises on a body that
\* is not JSON; any other status raises Exception with the status and the text.
FetchResult(response) ==
    IF response.status_code = HTTP_OK
    THEN LET r == JsonLoads(response.text)
         IN  IF r.ok THEN [data |-> r.v, exc |-> NoExc]
             ELSE [data |-> Unset,
                   exc |-> Exc("JSONDecodeError", "fetch_trending_videos", <<"json">>)]
    ELSE [data |-> Unset,
          exc |-> [type |-> "Exception", at |-> "fetch_trending_videos",
                   msg |-> <<"API Error: ", "{status_code}", " - ", "{text}">>,
                   status |-> IntStr(response.status_code),
                   body |-> response.text]]

(***************************************************************************)
(* The inputs: API payloads, server answers, environments, files           *)
(***************************************************************************)
\* The most items a payload of the function-level specifications holds.
MaxItems == 2

\* A title that needs quoting in CSV and escaping in JSON, with non-ASCII text.
SpecialTitle == <<"B", COMMA, QUOTE, EACUTE, BSLASH, NL>>
Titles == {<<"A">>, SpecialTitle, <<SURR>>}
Counts == {<<"7">>, <<"0", "0", "7">>}

\* snippet: absent, empty, or with a title; statistics alike.
Snippets == {Unset, Obj(<<>>)} \cup {Obj(<<Member(K_title, Str(t))>>) : t \in Titles}
Statistics == {Unset, Obj(<<>>)} \cup {Obj(<<Member(K_viewCount, Str(c))>>) : c \in Counts}

ItemOf(snippet, stats) ==
    Obj((IF snippet = Unset THEN <<>> ELSE <<Member(K_snippet, snippet)>>)
        \o (IF stats = Unset THEN <<>> ELSE <<Member(K_statistics, stats)>>))

Items == {ItemOf(sn, st) : sn \in Snippets, st \in Statistics}
ItemLists(n) == UNION {[1..k -> Items] : k \in 0..n}

K_etag == <<"e", "t", "a", "g">>
K_pageInfo == <<"p", "a", "g", "e", "I", "n", "f", "o">>
K_totalResults == <<"t", "o", "t", "a", "l">>

\* A response with the other top-level fields of the API around its items.
Full(items) ==
    Obj(<<Member(K_etag, Str(<<"x", EACUTE>>)),
          Member(K_items, Arr(items)),
          Member(K_pageInfo, Obj(<<Member(K_totalResults, Num(200))>>)),
          Member(<<"n", "e", "x", "t">>, Null)>>)

Payloads(n) ==
    {Obj(<<>>)} \cup {Bare(l) : l \in ItemLists(n)} \cup {Full(l) : l \in ItemLists(n - 1)}

ItemA == ItemOf(Obj(<<Member(K_title, Str(<<"A">>))>>),
                Obj(<<Member(K_viewCount, Str(<<"7">>))>>))
ItemNoViews == ItemOf(Obj(<<Member(K_title, Str(SpecialTitle))>>), Unset)
ItemSurrogate == ItemOf(Obj(<<Member(K_title, Str(<<SURR>>))>>),
                        Obj(<<Member(K_viewCount, Str(<<"7">>))>>))

\* The payloads of the CLI runs.
CliPayloads ==
    {Obj(<<>>), Bare(<<>>), Bare(<<ItemA>>), Bare(<<ItemNoViews, ItemA>>),
     Bare(<<ItemSurrogate>>), Full(<<ItemA>>)}

\* The body a server sends for a payload: compact JSON, non-ASCII escaped.
WireSettings == [indent |-> -1, ensure_ascii |-> TRUE]
WireJson(v) == Flatten(Chunks(v, 0, WireSettings))

NonOkStatuses == {204, 301, 400, 403, 404, 500, 503}
InvalidBodies == {<<>>, <<"<", "h", "t", "m", "l", ">">>, <<"{", QUOTE, "i", "t">>}
ErrorBodies == {<<>>, <<"q", "u", "o", "t", "a">>, WireJson(Bare(<<ItemA>>))}

\* What the API does with the request: it is down (no HTTP response at all), or
\* answers with a status and a body; json is the payload a 200 body encodes.
Down == [up |-> FALSE, status |-> 0, body |-> <<>>, json |-> Unset]
Answer(status, body, json) == [up |-> TRUE, status |-> status, body |-> body, json |-> json]

Servers(payloads, invalid, statuses, errors) ==
    {Down}
    \cup {Answer(HTTP_OK, WireJson(v), v) : v \in payloads}
    \cup {Answer(HTTP_OK, b, Unset) : b \in invalid}
    \cup {Answer(st, b, Unset) : st \in statuses, b \in errors}

\* The answers of the function-level specifications, and those of the CLI runs.
AllServers == Servers(Payloads(MaxItems), InvalidBodies, NonOkStatuses, ErrorBodies)
CliServers ==
    Servers(CliPayloads, {<<"<", "h", "t", "m", "l", ">">>}, {403, 500},
            {<<"q", "u", "o", "t", "a">>})

Regions == {"US", "CA"}
DefaultLimit == 5
Limits == {DefaultLimit, 0}

JsonPath(region) == "trending_" \o region \o ".json"
CsvPath(region) == "trending_" \o region \o ".csv"
Paths == {JsonPath(r) : r \in Regions} \cup {CsvPath(r) : r \in Regions}

OldText == <<"o", "l", "d", NL>>
LongOldText == Flatten([i \in 1..40 |-> OldText])

Values == {"", "KEY_A", "KEY_B"}
Names == {KEY_NAME, "OTHER"}
\* Every os.environ, and every .env file, over the names and values above.
Environs == UNION {[S -> Values] : S \in SUBSET Names}
EnvFiles == {NoEnvFile} \cup {EnvFile(e) : e \in Environs}

Only(value) == [k \in {KEY_NAME} |-> value]
CliEnvirons == {<<>>, Only(""), Only("KEY_A")}
CliEnvFiles == {NoEnvFile, EnvFile(<<>>), EnvFile(Only("")), EnvFile(Only("KEY_B"))}

(***************************************************************************)
(* The state                                                               *)
(***************************************************************************)
VARIABLES
    pc,        \* where the run stands
    argv,      \* the command line: region, limit, to_json, to_csv
    environ,   \* os.environ
    env_file,  \* the .env file load_dotenv reads
    api_key,   \* the credential, "" before it is loaded
    server,    \* what the API will do with the request
    sent,      \* the HTTP requests issued
    response,  \* the HTTP response received
    data,      \* what fetch_trending_videos returned
    fs,        \* the files of the working directory, by path
    locked,    \* the paths open(path, "w") fails on
    exc,       \* the exception that ended the run
    stdout     \* the lines typer.echo printed

vars == <<pc, argv, environ, env_file, api_key, server, sent, response, data,
          fs, locked, exc, stdout>>

Terminated == pc \in {"done", "failed"}

\* The process's exit status: 0 at the end of the command, 1 after an uncaught
\* exception.
ExitCode == IF pc = "done" THEN 0 ELSE 1

Raise(e) == pc' = "failed" /\ exc' = e

(***************************************************************************)
(* src/main.py fetch, step by step                                         *)
(***************************************************************************)
\* Step 1: api_key = load_api_key()
LoadKey ==
    /\ pc = "load_api_key"
    /\ LET r == LoadApiKey(env_file, environ)
       IN  /\ environ' = r.environ
           /\ api_key' = r.value
           /\ IF r.exc = NoExc THEN pc' = "request" /\ exc' = exc ELSE Raise(r.exc)
    /\ UNCHANGED <<argv, env_file, server, sent, response, data, fs, locked, stdout>>

\* Step 2, the call: requests.get(url, params=params) goes out.
SendRequest ==
    /\ pc = "request"
    /\ sent' = Append(sent, FetchRequest(api_key, argv.region, argv.limit))
    /\ pc' = "await"
    /\ UNCHANGED <<argv, environ, env_file, api_key, server, response, data, fs,
                   locked, exc, stdout>>

\* requests.get returns the server's response, or raises when there is none.
Respond ==
    /\ pc = "await"
    /\ \/ /\ server.up
          /\ response' = [status_code |-> server.status, text |-> server.body]
          /\ pc' = "response"
          /\ exc' = exc
       \/ /\ ~server.up
          /\ Raise(Exc("ConnectionError", "fetch_trending_videos", <<"requests.get">>))
          /\ response' = response
    /\ UNCHANGED <<argv, environ, env_file, api_key, server, sent, data, fs, locked,
                   stdout>>

\* A handler that asks once more after a failed fetch.
HandleResponse_Retry ==
    /\ pc = "response"
    /\ LET r == FetchResult(response)
       IN  /\ data' = r.data
           /\ IF r.exc = NoExc
              THEN /\ pc' = "save_json"
                   /\ exc' = exc
                   /\ stdout' = Append(stdout, "Fetched top trending videos")
              ELSE IF Len(sent) < 2
              THEN pc' = "request" /\ UNCHANGED <<exc, stdout>>
              ELSE Raise(r.exc) /\ stdout' = stdout
    /\ UNCHANGED <<argv, environ, env_file, api_key, server, sent, response, fs, locked>>

\* Step 2, the return, and step 3: the status check, then the confirmation.
HandleResponse ==
    /\ pc = "response"
    /\ LET r == FetchResult(response)
       IN  /\ data' = r.data
           /\ IF r.exc = NoExc
              THEN /\ pc' = "save_json"
                   /\ exc' = exc
                   /\ stdout' = Append(stdout, "Fetched top trending videos")
              ELSE Raise(r.exc) /\ stdout' = stdout
    /\ UNCHANGED <<argv, environ, env_file, api_key, server, sent, response, fs, locked>>

\* A step 4 that saves the JSON whether or not --json is set.
SaveJson_Always ==
    /\ pc = "save_json"
    /\ LET r == SaveToJson(data, JsonPath(argv.region), fs, locked)
       IN  /\ fs' = r.fs
           /\ IF r.exc = NoExc
              THEN /\ pc' = "save_csv"
                   /\ exc' = exc
                   /\ stdout' = Append(stdout, "Saved JSON")
              ELSE Raise(r.exc) /\ stdout' = stdout
    /\ UNCHANGED <<argv, environ, env_file, api_key, server, sent, response, data, locked>>

\* Step 4: if to_json: save_to_json(data, f"trending_{region}.json")
SaveJson ==
    /\ pc = "save_json"
    /\ IF argv.to_json
       THEN LET r == SaveToJson(data, JsonPath(argv.region), fs, locked)
            IN  /\ fs' = r.fs
                /\ IF r.exc = NoExc
                   THEN /\ pc' = "save_csv"
                        /\ exc' = exc
                        /\ stdout' = Append(stdout, "Saved JSON")
                   ELSE Raise(r.exc) /\ stdout' = stdout
       ELSE pc' = "save_csv" /\ UNCHANGED <<fs, exc, stdout>>
    /\ UNCHANGED <<argv, environ, env_file, api_key, server, sent, response, data, locked>>

\* A step 5 that removes the JSON file when the CSV cannot be written.
SaveCsv_Cleanup ==
    /\ pc = "save_csv"
    /\ IF argv.to_csv
       THEN LET r == SaveToCsv(data, CsvPath(argv.region), fs, locked)
            IN  IF r.exc = NoExc
                THEN /\ fs' = r.fs
                     /\ pc' = "done"
                     /\ exc' = exc
                     /\ stdout' = Append(stdout, "Saved CSV")
                ELSE /\ fs' = [r.fs EXCEPT ![JsonPath(argv.region)] = NoFile]
                     /\ Raise(r.exc)
                     /\ stdout' = stdout
       ELSE pc' = "done" /\ UNCHANGED <<fs, exc, stdout>>
    /\ UNCHANGED <<argv, environ, env_file, api_key, server, sent, response, data, locked>>

\* Step 5: if to_csv: save_to_csv(data, f"trending_{region}.csv")
SaveCsv ==
    /\ pc = "save_csv"
    /\ IF argv.to_csv
       THEN LET r == SaveToCsv(data, CsvPath(argv.region), fs, locked)
            IN  /\ fs' = r.fs
                /\ IF r.exc = NoExc
                   THEN /\ pc' = "done"
                        /\ exc' = exc
                        /\ stdout' = Append(stdout, "Saved CSV")
                   ELSE Raise(r.exc) /\ stdout' = stdout
       ELSE pc' = "done" /\ UNCHANGED <<fs, exc, stdout>>
    /\ UNCHANGED <<argv, environ, env_file, api_key, server, sent, response, data, locked>>

Args == [region : Regions, limit : Limits, to_json : BOOLEAN, to_csv : BOOLEAN]

\* A CLI run: python3 src/main.py fetch --region R --limit N [--json] [--csv]
Init ==
    /\ pc = "load_api_key"
    /\ argv \in Args
    /\ environ \in CliEnvirons
    /\ env_file \in CliEnvFiles
    /\ api_key = ""
    /\ server \in CliServers
    /\ sent = <<>>
    /\ response = NoResponse
    /\ data = Unset
    /\ fs \in {[p \in Paths |-> NoFile], [p \in Paths |-> File(OldText)]}
    /\ locked \in SUBSET {JsonPath(argv.region), CsvPath(argv.region)}
    /\ exc = NoExc
    /\ stdout = <<>>

Program == LoadKey \/ SendRequest \/ HandleResponse \/ SaveJson \/ SaveCsv

Next == Program \/ Respond

Spec == Init /\ [][Next]_vars

\* The thread leaves a position of its own: a step of Program, and every step
\* of Program is one, for each changes pc; it is possible at each such position.
ProgramStep ==
    /\ pc \in {"load_api_key", "request", "response", "save_json", "save_csv"}
    /\ pc' \in {"request", "await", "save_json", "save_csv", "done", "failed"}

\* The program's steps are taken in turn by its one thread, so the thread does
\* not stop at a position of its own; nothing makes the server answer, and
\* requests.get is given no timeout.
FairSpec == Spec /\ WF_pc(ProgramStep)

(***************************************************************************)
(* The functions on their own                                              *)
(***************************************************************************)
\* fetch_trending_videos(api_key, region, max_results), called directly.
FetchInit ==
    /\ pc = "request"
    /\ argv \in [region : Regions, limit : Limits, to_json : {FALSE}, to_csv : {FALSE}]
    /\ environ = <<>>
    /\ env_file = NoEnvFile
    /\ api_key = "KEY_A"
    /\ server \in AllServers
    /\ sent = <<>>
    /\ response = NoResponse
    /\ data = Unset
    /\ fs = [p \in Paths |-> NoFile]
    /\ locked = {}
    /\ exc = NoExc
    /\ stdout = <<>>

FetchNext == SendRequest \/ Respond \/ HandleResponse

FetchSpec == FetchInit /\ [][FetchNext]_vars

\* The file at the path before the write: none, a short one, a long one.
OldFiles == {NoFile, File(OldText), File(LongOldText)}

\* save_to_json(x, p), called directly with a value in hand.
JsonInit ==
    /\ pc = "save_json"
    /\ argv \in [region : Regions, limit : {DefaultLimit}, to_json : {TRUE}, to_csv : {FALSE}]
    /\ environ = <<>>
    /\ env_file = NoEnvFile
    /\ api_key = "KEY_A"
    /\ server = Down
    /\ sent = <<>>
    /\ response = NoResponse
    /\ data \in Payloads(MaxItems)
    /\ \E old \in OldFiles :
          fs = [p \in Paths |-> IF p = JsonPath(argv.region) THEN old ELSE NoFile]
    /\ locked \in SUBSET {JsonPath(argv.region)}
    /\ locked = {} \/ fs[JsonPath(argv.region)] = File(OldText)
    /\ exc = NoExc
    /\ stdout = <<>>

JsonSpec == JsonInit /\ [][SaveJson]_vars

\* save_to_csv(x, p), called directly with a value in hand.
CsvInit ==
    /\ pc = "save_csv"
    /\ argv \in [region : Regions, limit : {DefaultLimit}, to_json : {FALSE}, to_csv : {TRUE}]
    /\ environ = <<>>
    /\ env_file = NoEnvFile
    /\ api_key = "KEY_A"
    /\ server = Down
    /\ sent = <<>>
    /\ response = NoResponse
    /\ data \in Payloads(MaxItems)
    /\ \E old \in OldFiles :
          fs = [p \in Paths |-> IF p = CsvPath(argv.region) THEN old ELSE NoFile]
    /\ locked \in SUBSET {CsvPath(argv.region)}
    /\ locked = {} \/ fs[CsvPath(argv.region)] = File(OldText)
    /\ exc = NoExc
    /\ stdout = <<>>

CsvSpec == CsvInit /\ [][SaveCsv]_vars

\* load_api_key(env_path), called with a file of the caller's, any number of
\* times in one process: os.environ keeps what the earlier calls put there.
LoadKeyFrom ==
    /\ pc = "test"
    /\ \E f \in EnvFiles :
          LET r == LoadApiKey(f, environ)
          IN  /\ env_file' = f
              /\ environ' = r.environ
              /\ api_key' = r.value
              /\ exc' = r.exc
    /\ UNCHANGED <<pc, argv, server, sent, response, data, fs, locked, stdout>>

KeyInit ==
    /\ pc = "test"
    /\ argv = [region |-> "US", limit |-> DefaultLimit, to_json |-> FALSE, to_csv |-> FALSE]
    /\ environ \in Environs
    /\ env_file = NoEnvFile
    /\ api_key = ""
    /\ server = Down
    /\ sent = <<>>
    /\ response = NoResponse
    /\ data = Unset
    /\ fs = [p \in Paths |-> NoFile]
    /\ locked = {}
    /\ exc = NoExc
    /\ stdout = <<>>

KeySpec == KeyInit /\ [][LoadKeyFrom]_vars

(***************************************************************************)
(* The properties                                                          *)
(***************************************************************************)
\* The response has been received and the status check has run.
Handled == pc \in {"save_json", "failed"} /\ response # NoResponse

\* C1: every response whose status is not 200 makes fetch_trending_videos raise
\* the one kind of error, Exception, carrying that status and the raw body; it
\* returns nothing, and the body is never parsed or returned.
C1_NonOkRaises ==
    (Handled /\ response.status_code # HTTP_OK) =>
        /\ pc = "failed"
        /\ exc.type = "Exception"
        /\ exc.at = "fetch_trending_videos"
        /\ ScanNumber(exc.status, 1, 0) = Parsed(Num(response.status_code), Len(exc.status) + 1)
        /\ exc.body = response.text
        /\ data = Unset

\* A 403 whose body is valid JSON was refused, the body left unparsed.
C1_Witness ==
    /\ pc = "failed"
    /\ response = [status_code |-> 403, text |-> WireJson(Bare(<<ItemA>>))]
    /\ exc.type = "Exception"

\* C2: for a 200 response with a valid JSON body fetch_trending_videos returns
\* the payload the body encodes, whole and in order, items or none, and the one
\* request carried the region and max_results it was given, as given.
C2_PassThrough ==
    (Handled /\ response.status_code = HTTP_OK /\ server.json # Unset) =>
        /\ pc = "save_json"
        /\ exc = NoExc
        /\ data = server.json
        /\ Len(sent) = 1
        /\ sent[1].params.regionCode = argv.region
        /\ sent[1].params.maxResults = argv.limit

\* A body without items came back as it was, asked for with max_results 0.
C2_Witness ==
    /\ pc = "save_json"
    /\ data = Obj(<<>>)
    /\ argv.limit = 0
    /\ response.status_code = HTTP_OK

\* The cell the claim expects for item[outer][inner]: the string, or empty.
ExpectedCell(item, outer, inner) ==
    IF HasKey(item, outer) /\ HasKey(Get(item, outer, Null), inner)
    THEN Get(Get(item, outer, Null), inner, Null).v
    ELSE <<>>

\* save_to_csv has been called on a path that open() accepts.
CsvCalled == pc \in {"done", "failed"} /\ CsvPath(argv.region) \notin locked

\* The file holds the header title,views and then one row per item, in the
\* items' order, row i with item i's title and viewCount as they are.
Projected ==
    LET items == Get(data, K_items, Arr(<<>>)).v
        rows == CsvRows(fs[CsvPath(argv.region)].text)
    IN  /\ pc = "done"
        /\ Len(rows) = Len(items) + 1
        /\ rows[1] = << <<"t", "i", "t", "l", "e">>, <<"v", "i", "e", "w", "s">> >>
        /\ \A i \in 1..Len(items) :
              rows[i + 1] = <<ExpectedCell(items[i], K_snippet, K_title),
                              ExpectedCell(items[i], K_statistics, K_viewCount)>>

\* No title and no viewCount of the response holds an unpaired surrogate.
CellsEncodable ==
    LET items == Get(data, K_items, Arr(<<>>)).v
    IN  \A i \in 1..Len(items) :
           /\ ~Contains(ExpectedCell(items[i], K_snippet, K_title), SURR)
           /\ ~Contains(ExpectedCell(items[i], K_statistics, K_viewCount), SURR)

\* C3 as stated: for a response of N >= 1 items save_to_csv writes the header
\* title,views and then N rows in the items' order, row i holding item i's
\* title and viewCount string as they are, an empty cell for a missing one.
C3_Projection ==
    (CsvCalled /\ Len(Get(data, K_items, Arr(<<>>)).v) >= 1) => Projected

\* C3, amended: the same, for the responses whose titles and viewCounts hold no
\* unpaired surrogate.
C3_ProjectionOfText ==
    (CsvCalled /\ Len(Get(data, K_items, Arr(<<>>)).v) >= 1 /\ CellsEncodable) => Projected

\* Two rows were written, the first with a quoted title and no views.
C3_Witness ==
    /\ pc = "done"
    /\ data = Bare(<<ItemNoViews, ItemA>>)
    /\ CsvRows(fs[CsvPath(argv.region)].text) =
           << << <<"t", "i", "t", "l", "e">>, <<"v", "i", "e", "w", "s">> >>,
              << <<"B", COMMA, QUOTE, EACUTE, BSLASH, NL>>, <<>> >>,
              << <<"A">>, <<"7">> >> >>

\* C4: for a response with no items, or no items field, save_to_csv raises
\* nothing and writes the header row title,views and no data row.
C4_HeaderOnly ==
    LET items == Get(data, K_items, Arr(<<>>)).v
        rows == CsvRows(fs[CsvPath(argv.region)].text)
    IN  (CsvCalled /\ Len(items) = 0) =>
            /\ pc = "done"
            /\ rows = << << <<"t", "i", "t", "l", "e">>, <<"v", "i", "e", "w", "s">> >> >>

\* C5: when YOUTUBE_API_KEY resolves to nothing or to the empty string,
\* load_api_key raises a ValueError naming the key and returns no key, and the
\* run ends there, no HTTP request issued.
C5_MissingKeyFailsFirst ==
    (pc # "load_api_key" /\ (KEY_NAME \notin DOMAIN environ \/ environ[KEY_NAME] = "")) =>
        /\ pc = "failed"
        /\ exc.type = "ValueError"
        /\ exc.at = "load_api_key"
        /\ \E i \in 1..Len(exc.msg) : exc.msg[i] = "YOUTUBE_API_KEY"
        /\ api_key = ""
        /\ sent = <<>>

\* The key resolved to the empty string, whatever the .env file says.
C5_Witness ==
    /\ pc = "failed"
    /\ exc.type = "ValueError"
    /\ environ = Only("")
    /\ env_file = EnvFile(Only("KEY_B"))
    /\ sent = <<>>

\* C6: when the file given to load_api_key defines YOUTUBE_API_KEY, the file's
\* value is the one returned, whatever os.environ held.
C6_FileWins ==
    (env_file.exists /\ KEY_NAME \in DOMAIN env_file.vars /\ env_file.vars[KEY_NAME] # "") =>
        /\ exc = NoExc
        /\ api_key = env_file.vars[KEY_NAME]

\* save_to_json has been called on a path that open() accepts.
JsonCalled == pc \in {"save_csv", "failed"} /\ JsonPath(argv.region) \notin locked

RECURSIVE WellFormed(_)
\* No string of the value, key or not, holds an unpaired surrogate.
WellFormed(x) ==
    IF x.t = "str" THEN ~Contains(x.v, SURR)
    ELSE IF x.t = "arr" THEN \A i \in 1..Len(x.v) : WellFormed(x.v[i])
    ELSE IF x.t = "obj"
    THEN \A i \in 1..Len(x.v) : ~Contains(x.v[i].k, SURR) /\ WellFormed(x.v[i].x)
    ELSE TRUE

\* Parsing the file at p gives x back.
ReadsBack ==
    /\ pc = "save_csv"
    /\ JsonLoads(fs[JsonPath(argv.region)].text) =
           Parsed(data, Len(fs[JsonPath(argv.region)].text) + 1)

\* C7 as stated: save_to_json(x, p) and then parsing the file at p gives x
\* back, whatever the file held before.
C7_RoundTrip == JsonCalled => ReadsBack

\* C7, amended: the same, for the values none of whose strings holds an
\* unpaired surrogate.
C7_RoundTripOfText == (JsonCalled /\ WellFormed(data)) => ReadsBack

\* A response with escapes, non-ASCII text, a number and a null was written.
C7_Witness ==
    /\ pc = "save_csv"
    /\ data = Full(<<ItemOf(Obj(<<Member(K_title, Str(SpecialTitle))>>), Obj(<<>>))>>)
    /\ JsonLoads(fs[JsonPath(argv.region)].text).ok

\* At most one request at any time, and exactly one by the end of a run whose
\* credential resolved.
OneRequest ==
    /\ Len(sent) <= 1
    /\ (Terminated /\ api_key # "") => Len(sent) = 1

\* C8 as stated: one HTTP GET per run with a credential, never a second one,
\* and every run terminates.
C8_OneRequestAndTerminates == []OneRequest /\ <>Terminated

\* C8, amended: one HTTP GET per run with a credential, never a second one, and
\* every run terminates or stays blocked in that one call for ever.
C8_OneRequestThenEnds == []OneRequest /\ (<>Terminated \/ <>[](pc = "await"))

\* A non-200 answer ended the run after its single request.
C8_Witness ==
    /\ pc = "failed"
    /\ exc.type = "Exception"
    /\ response.status_code = 500
    /\ Len(sent) = 1

\* The JSON file holds the whole response.
JsonOnDisk ==
    LET f == fs[JsonPath(argv.region)]
    IN  f.exists /\ JsonLoads(f.text) = Parsed(data, Len(f.text) + 1)

\* C9: with --json and --csv the JSON is written before the CSV, and when the
\* CSV write fails after it the run ends in failure, the exit status not 0,
\* with the JSON file on disk holding the whole response.
C9_JsonSurvivesCsvFailure ==
    /\ (pc \notin {"done", "failed"} \/ exc.at \notin {"", "save_to_csv"}) =>
           fs[CsvPath(argv.region)] \in {NoFile, File(OldText)}
    /\ (argv.to_json /\ argv.to_csv /\ pc \in {"save_csv", "done"}) => JsonOnDisk
    /\ (/\ argv.to_json /\ argv.to_csv /\ Terminated
        /\ exc.at \in {"", "save_to_csv"}
        /\ CsvPath(argv.region) \in locked) =>
           /\ pc = "failed"
           /\ exc.at = "save_to_csv"
           /\ ExitCode # 0
           /\ JsonOnDisk

\* The CSV could not be opened; the JSON written before it is still there.
C9_Witness ==
    /\ pc = "failed"
    /\ exc.type = "OSError"
    /\ exc.at = "save_to_csv"
    /\ argv.to_json
    /\ data = Bare(<<ItemNoViews, ItemA>>)
    /\ JsonOnDisk

\* C10: a file changes only in the step that saves it, with its flag set, after
\* the fetch has returned: trending_<region>.json by step 4 under --json,
\* trending_<region>.csv by step 5 under --csv, no other file ever.
C10_Frame ==
    [][\A p \in Paths :
          fs'[p] # fs[p] =>
              /\ response.status_code = HTTP_OK
              /\ data # Unset
              /\ exc = NoExc
              /\ \/ p = JsonPath(argv.region) /\ argv.to_json /\ pc = "save_json"
                 \/ p = CsvPath(argv.region) /\ argv.to_csv /\ pc = "save_csv"]_vars

\* The fetch failed under --json --csv and both old files are as they were.
C10_Witness ==
    /\ pc = "failed"
    /\ exc.at = "fetch_trending_videos"
    /\ argv.to_json /\ argv.to_csv
    /\ locked = {}
    /\ fs = [p \in Paths |-> File(OldText)]

====
